---- MODULE Spec2Model ----
(***************************************************************************)
(* SectionManager of the scroll-follow extension                           *)
(* (src/js/extensions/scrollFollow.sectionManager.js).                     *)
(*                                                                         *)
(* Strings are sequences of one-character strings, so that the regular     *)
(* expressions and String.prototype.trim are computed character by         *)
(* character.  Section objects live on a heap and are referred to by       *)
(* address, so that a reference kept by _currentSection or by a caller of  *)
(* getSectionList aliases the object a later call writes to.               *)
(***************************************************************************)
EXTENDS Integers, Sequences, FiniteSets

\* ------------------------------------------------------------------ bounds

\* Longest document (in lines) drawn for a makeSectionList call, the worked
\* example of six lines apart.
MaxLines == 3

\* Longest sequence of top-level nodes a preview render produces, the worked
\* example of five elements apart.
MaxNodes == 2

\* Deepest nesting of content-id containers the preview is allowed to reach
\* when sectionMatch is called again without a re-render in between.
MaxNest == 2

\* Number of heap cells: the list a caller holds, the list being built and one
\* stale _currentSection can be live at once, each list of at most MaxLines
\* sections.
MaxObj == 2 * MaxLines + 1

\* ------------------------------------------------------------ JS primitives

\* null / undefined for references to section objects
Null == 0

\* The whitespace characters of the model's alphabet (JS \s and trim()).
WhiteSpace == {" ", "\t"}

\* String.prototype.trim
RECURSIVE TrimLeft(_)
TrimLeft(s) ==
    IF s # <<>> /\ Head(s) \in WhiteSpace THEN TrimLeft(Tail(s)) ELSE s

RECURSIVE TrimRight(_)
TrimRight(s) ==
    IF s # <<>> /\ s[Len(s)] \in WhiteSpace
    THEN TrimRight(SubSeq(s, 1, Len(s) - 1))
    ELSE s

Trim(s) == TrimRight(TrimLeft(s))

AllIn(s, from, to, chars) == \A k \in from..to : s[k] \in chars

\* /^ *(?:\={1,}|-{1,})\s*$/ : i leading spaces, then the run (i+1)..j of
\* one or more '=' or of one or more '-', then whitespace to the end.
setextHeaderRx(s) ==
    \E i \in 0..Len(s) : \E j \in (i + 1)..Len(s) :
        /\ AllIn(s, 1, i, {" "})
        /\ \/ AllIn(s, i + 1, j, {"="})
           \/ AllIn(s, i + 1, j, {"-"})
        /\ AllIn(s, j + 1, Len(s), WhiteSpace)

\* ------------------------------------------------------------- the editor

\* getStateAfter(i).base of the markdown mode: the flags the classifier reads.
Base(h, q, l, t) == [header |-> h, quote |-> q, list |-> l, taskList |-> t]

PlainBase == Base(FALSE, FALSE, FALSE, FALSE)
HeaderBase == Base(TRUE, FALSE, FALSE, FALSE)

Line(text, base) == [text |-> text, base |-> base]

\* cm.getLine(i) for the 0-based line i; undefined outside the document.
HasLine(d, i) == i >= 0 /\ i < Len(d)
getLine(d, i) == d[i + 1].text
getStateAfter(d, i) == d[i + 1]

\* cm.getDoc().lineCount()
lineCount(d) == Len(d)

\* ------------------------------------------------------------ the manager

\* A JS reference to an array of section objects: null, or the array's items
\* (heap addresses of the section objects).
NullList == [isNull |-> TRUE, items |-> <<>>]
List(items) == [isNull |-> FALSE, items |-> items]

\* The value of $previewSectionEl: null, or a jQuery set of DOM nodes.
NullEl == [isNull |-> TRUE, nodes |-> <<>>]
Jq(nodes) == [isNull |-> FALSE, nodes |-> nodes]

\* A heap cell that holds no section object.
FreeCell == [start |-> -1, end |-> -1, previewSectionEl |-> NullEl]

Addrs == 1..MaxObj

_makeSectionData(start, end) ==
    [start |-> start, end |-> end, previewSectionEl |-> NullEl]

Range(s) == {s[k] : k \in 1..Len(s)}

\* The addresses reachable from the manager (m.list, m.cur) and from the list
\* the caller holds (m.held); every other cell is garbage.
Live(m) ==
    Range(m.list.items) \cup Range(m.held.items)
    \cup (IF m.cur = Null THEN {} ELSE {m.cur})

\* The garbage collector with address normalisation: the live objects are
\* moved to the lowest addresses (the held list first, then the manager's
\* list, then a _currentSection in neither) and every other cell is freed.
\* Which object is which, and so every alias, is kept.
Collect(m) ==
    LET NotHeld(a) == a \notin Range(m.held.items)
        fresh == SelectSeq(m.list.items, NotHeld)
        listed == m.held.items \o fresh
        order == IF m.cur = Null \/ m.cur \in Range(listed)
                 THEN listed ELSE Append(listed, m.cur)
        to(a) == CHOOSE k \in 1..Len(order) : order[k] = a
        move(l) == [l EXCEPT !.items = [k \in 1..Len(l.items) |-> to(l.items[k])]]
    IN  [m EXCEPT !.heap = [a \in Addrs |-> IF a <= Len(order) THEN m.heap[order[a]]
                                            ELSE FreeCell],
                  !.list = move(m.list),
                  !.held = move(m.held),
                  !.cur = IF m.cur = Null THEN Null ELSE to(m.cur)]

NewAddr(m) ==
    CHOOSE a \in Addrs \ Live(m) : \A b \in Addrs \ Live(m) : a <= b

_addNewSection(m, start, end) ==
    LET a == NewAddr(m) IN
    [m EXCEPT !.heap[a] = _makeSectionData(start, end),
              !.list = List(Append(m.list.items, a)),
              !.cur = a]

\* _updateCurrentSectionEnd writing the start field instead of the end field.
_updateCurrentSectionEnd_WritesStart(m, end) ==
    IF m.cur = Null
    THEN [m EXCEPT !.thrown = TRUE]
    ELSE [m EXCEPT !.heap[m.cur].start = end]

\* this._currentSection.end = end : a TypeError when _currentSection is null.
_updateCurrentSectionEnd(m, end) ==
    IF m.cur = Null
    THEN [m EXCEPT !.thrown = TRUE]
    ELSE [m EXCEPT !.heap[m.cur].end = end]

\* The callback makeSectionList hands to _eachLineState.
iteratee(m, isSection, lineNumber) ==
    IF lineNumber = 0 \/ isSection
    THEN _addNewSection(m, lineNumber, lineNumber)
    ELSE _updateCurrentSectionEnd(m, lineNumber)

\* The atx branch without the list and task-list tests.
isAtx_IgnoresList(d, i) ==
    /\ getLine(d, i) # <<>>
    /\ getStateAfter(d, i).base.header
    /\ ~getStateAfter(d, i).base.quote

\* The "atx header" branch of the classifier.
isAtx(d, i) ==
    /\ getLine(d, i) # <<>>
    /\ getStateAfter(d, i).base.header
    /\ ~getStateAfter(d, i).base.quote
    /\ ~getStateAfter(d, i).base.list
    /\ ~getStateAfter(d, i).base.taskList

\* The "setext header" branch of the classifier.
isSetext(d, i) ==
    /\ HasLine(d, i + 1)
    /\ getLine(d, i + 1) # <<>>
    /\ setextHeaderRx(getLine(d, i + 1))

isSectionLine(d, i) == isAtx(d, i) \/ isSetext(d, i)

\* trimCapture += this.cm.getLine(i).trim()
trimStep(trimCapture, text) == trimCapture \o Trim(text)

\* The for loop of _eachLineState from line i on, applied to the manager
\* state m; calls is the sequence of (isSection, i) pairs passed to the
\* callback so far.  A TypeError raised by the callback ends the loop.
RECURSIVE _eachLineState(_, _, _, _, _, _)
_eachLineState(d, i, isTrimming, trimCapture, m, calls) ==
    IF i >= lineCount(d) \/ m.thrown
    THEN [m |-> m, calls |-> calls]
    ELSE
        LET isSection == isSectionLine(d, i)
            capture == IF isTrimming THEN trimStep(trimCapture, getLine(d, i))
                                     ELSE trimCapture
        IN  IF isTrimming /\ capture = <<>>
            THEN _eachLineState(d, i + 1, TRUE, capture, m, calls)
            ELSE _eachLineState(d, i + 1, FALSE, capture,
                                iteratee(m, isSection, i),
                                Append(calls, <<isSection, i>>))

\* makeSectionList on the manager state m over the document d.
makeSectionList(d, m) ==
    LET m0 == Collect([m EXCEPT !.list = List(<<>>), !.thrown = FALSE])
        r == _eachLineState(d, 0, TRUE, <<>>, m0, <<>>)
    IN  [m |-> Collect(r.m), calls |-> r.calls]

\* The for loop of sectionByLine: the index the scan stops at.
RECURSIVE scanFrom(_, _, _, _)
scanFrom(heap, items, line, sectionIndex) ==
    IF sectionIndex < Len(items) /\ ~(line <= heap[items[sectionIndex + 1]].end)
    THEN scanFrom(heap, items, line, sectionIndex + 1)
    ELSE sectionIndex

\* sectionByLine without the fallback to the last section.
sectionByLine_NoFallback(m, line) ==
    IF m.list.isNull
    THEN [thrown |-> TRUE, ret |-> Null]
    ELSE
        LET sectionLength == Len(m.list.items)
            sectionIndex == scanFrom(m.heap, m.list.items, line, 0)
        IN  [thrown |-> FALSE,
             ret |-> IF sectionIndex >= sectionLength THEN Null
                     ELSE m.list.items[sectionIndex + 1]]

\* sectionByLine: the address of the section returned, Null for undefined
\* (sectionList[-1] of an empty list); thrown when _sectionList is null.
sectionByLine(m, line) ==
    IF m.list.isNull
    THEN [thrown |-> TRUE, ret |-> Null]
    ELSE
        LET sectionLength == Len(m.list.items)
            stop == scanFrom(m.heap, m.list.items, line, 0)
            sectionIndex == IF stop = sectionLength THEN sectionLength - 1 ELSE stop
        IN  [thrown |-> FALSE,
             ret |-> IF sectionIndex < 0 THEN Null ELSE m.list.items[sectionIndex + 1]]

\* ------------------------------------------------------------ the preview

\* A DOM node: an element (nodeType ELEMENT_NODE) with its tag name, or a
\* text node; cls is the index of a content-id-<index> container, -1 for
\* every other node; kids are the child nodes.
ELEMENT_NODE == 1

Node(nodeType, tagName, cls, kids) ==
    [nodeType |-> nodeType, tagName |-> tagName, cls |-> cls, kids |-> kids]

Element(tagName) == Node(ELEMENT_NODE, tagName, -1, <<>>)
TextNode == Node(3, <<"#", "t", "e", "x", "t">>, -1, <<>>)

H1 == Element(<<"H", "1">>)
H2 == Element(<<"H", "2">>)
P == Element(<<"P">>)
H1X == Element(<<"H", "1", "X">>)

\* $('<div class="content-id-' + index + '"></div>') holding the nodes kids
SectionDiv(index, kids) == Node(ELEMENT_NODE, <<"D", "I", "V">>, index, kids)

\* el.tagName.match(/H1|H2|H3|H4|H5|H6/): the pattern is not anchored.
tagNameMatch(tagName) ==
    \E k \in 1..(Len(tagName) - 1) :
        tagName[k] = "H" /\ tagName[k + 1] \in {"1", "2", "3", "4", "5", "6"}

\* The .each callback of _getPreviewSections from position p of the
\* preview's contents on.  An element is referred to by its position in the
\* contents; lastSection is Len(sections) - 1 throughout.
RECURSIVE eachElement(_, _, _)
eachElement(contents, p, sections) ==
    IF p > Len(contents)
    THEN sections
    ELSE IF contents[p].nodeType # ELEMENT_NODE
    THEN eachElement(contents, p + 1, sections)
    ELSE
        LET opened == IF tagNameMatch(contents[p].tagName)
                         /\ sections[Len(sections)] # <<>>
                      THEN Append(sections, <<>>)
                      ELSE sections
        IN  eachElement(contents, p + 1,
                        [opened EXCEPT ![Len(opened)] = Append(@, p)])

_getPreviewSections(contents) == eachElement(contents, 1, << <<>> >>)

\* The nodes at the positions pos of contents.
NodesAt(contents, pos) == [k \in 1..Len(pos) |-> contents[pos[k]]]

RECURSIVE Without(_, _, _)
Without(contents, p, drop) ==
    IF p > Len(contents) THEN <<>>
    ELSE (IF p \in drop THEN <<>> ELSE <<contents[p]>>) \o Without(contents, p + 1, drop)

\* wrapAll without the .parent(): the wrapped elements are recorded instead
\* of their container.
wrapAll_NoParent(contents, pos, index) ==
    IF pos = <<>>
    THEN [contents |-> contents, parent |-> Jq(<<>>)]
    ELSE
        LET div == SectionDiv(index, NodesAt(contents, pos))
        IN  [contents |-> SubSeq(contents, 1, pos[1] - 1) \o <<div>>
                          \o Without(contents, pos[1] + 1, Range(pos)),
             parent |-> Jq(NodesAt(contents, pos))]

\* $(childs).wrapAll($sectionDiv).parent() for the elements at the positions
\* pos: jQuery's wrapAll does nothing on an empty set, and the parent() of
\* an empty set is an empty set; otherwise the container takes the place of
\* the first element and the elements become its children.
wrapAll(contents, pos, index) ==
    IF pos = <<>>
    THEN [contents |-> contents, parent |-> Jq(<<>>)]
    ELSE
        LET div == SectionDiv(index, NodesAt(contents, pos))
        IN  [contents |-> SubSeq(contents, 1, pos[1] - 1) \o <<div>>
                          \o Without(contents, pos[1] + 1, Range(pos)),
             parent |-> Jq(<<div>>)]

\* The forEach of _matchPreviewSectionsWithSectionlist from index on; shift
\* is how far the earlier wraps moved the positions of the later elements.
RECURSIVE _matchPreviewSectionsWithSectionlist(_, _, _, _, _)
_matchPreviewSectionsWithSectionlist(m, contents, sections, index, shift) ==
    IF index >= Len(sections)
    THEN [m |-> m, contents |-> contents]
    ELSE IF index < Len(m.list.items)
    THEN
        LET childs == sections[index + 1]
            w == wrapAll(contents, [k \in 1..Len(childs) |-> childs[k] - shift], index)
            a == m.list.items[index + 1]
        IN  _matchPreviewSectionsWithSectionlist(
                [m EXCEPT !.heap[a].previewSectionEl = w.parent],
                w.contents, sections, index + 1,
                shift + (IF childs = <<>> THEN 0 ELSE Len(childs) - 1))
    ELSE _matchPreviewSectionsWithSectionlist(m, contents, sections, index + 1, shift)

\* sectionMatch without the test of _sectionList: with no list the first
\* group is wrapped all the same.
sectionMatch_NoGuard(m, contents) ==
    IF ~m.list.isNull
    THEN _matchPreviewSectionsWithSectionlist(m, contents,
                                              _getPreviewSections(contents), 0, 0)
    ELSE [m |-> m,
          contents |-> wrapAll(contents, _getPreviewSections(contents)[1], 0).contents]

\* sectionMatch: an empty array is truthy, null is not.
sectionMatch(m, contents) ==
    IF ~m.list.isNull
    THEN _matchPreviewSectionsWithSectionlist(m, contents,
                                              _getPreviewSections(contents), 0, 0)
    ELSE [m |-> m, contents |-> contents]

RECURSIVE Depth(_)
Depth(node) ==
    IF node.kids = <<>> THEN 0
    ELSE 1 + CHOOSE x \in {Depth(node.kids[k]) : k \in 1..Len(node.kids)} :
                 \A y \in {Depth(node.kids[k]) : k \in 1..Len(node.kids)} : y <= x

Nest(contents) ==
    IF \E k \in 1..Len(contents) : Depth(contents[k]) >= MaxNest THEN MaxNest
    ELSE IF \E k \in 1..Len(contents) : Depth(contents[k]) >= 1 THEN 1 ELSE 0

\* ------------------------------------------------------------ input domains

SeqsUpTo(S, n) == UNION {[1..k -> S] : k \in 0..n}

Blank == Line(<<>>, PlainBase)
Body == Line(<<"a">>, PlainBase)
Atx == Line(<<"#">>, HeaderBase)
Underline == Line(<<"=">>, PlainBase)

\* A setext heading and its underline, then a line of text: ["a", "=", "a"]
SetextDoc == <<Body, Underline, Body>>

\* ["", "# Title", "body1", "body2", "## Sub", "body3"]
ExampleDoc ==
    << Line(<<>>, PlainBase),
       Line(<<"#", " ", "T", "i", "t", "l", "e">>, HeaderBase),
       Line(<<"b", "o", "d", "y", "1">>, PlainBase),
       Line(<<"b", "o", "d", "y", "2">>, PlainBase),
       Line(<<"#", "#", " ", "S", "u", "b">>, HeaderBase),
       Line(<<"b", "o", "d", "y", "3">>, PlainBase) >>

\* The documents of the section-list specification.
Docs == SeqsUpTo({Blank, Body, Atx}, MaxLines) \cup {ExampleDoc, SetextDoc}

\* The documents of the classifier specification: every text of the model
\* without heading state, and blank and plain text under each heading state.
ClassifyTexts ==
    { <<>>, <<" ">>, <<"a">>, <<"=">>, <<"-", "-">>, <<" ", "=", " ">>,
      <<"\t", "=">>, <<"=", "a">> }

ClassifyLines ==
    {Line(t, PlainBase) : t \in ClassifyTexts}
    \cup {Line(<<>>, HeaderBase), Line(<<"a">>, HeaderBase),
          Line(<<"a">>, Base(TRUE, TRUE, FALSE, FALSE)),
          Line(<<"a">>, Base(TRUE, FALSE, TRUE, FALSE)),
          Line(<<"a">>, Base(TRUE, FALSE, TRUE, TRUE))}

ClassifyDocs == SeqsUpTo(ClassifyLines, MaxLines)

\* The documents of the preview specification: n heading lines, n sections.
HeadingDocs == SeqsUpTo({Atx}, MaxLines)

\* [H1, P, P, H2, P]
ExamplePreview == <<H1, P, P, H2, P>>

\* A render whose second element is a custom element named H1X.
CustomPreview == <<P, H1X>>

Renders == SeqsUpTo({H1, P, TextNode}, MaxNodes) \cup {ExamplePreview, CustomPreview}

\* ------------------------------------------------------------------- state

VARIABLES
    cm,                \* the document the last makeSectionList read: per line
                       \* its text and its mode state
    heap,              \* the section objects, by address
    _sectionList,      \* this._sectionList
    _currentSection,   \* this._currentSection: an address or Null
    previewContent,    \* the child nodes of this.$previewContent
    held,              \* the caller's reference from its last getSectionList
    heldSnap,          \* <<start, end>> of held's sections when it was obtained
    heldFresh,         \* no makeSectionList has run since then
    twice,             \* the last two makeSectionList calls read the same
                       \* document and held was obtained between them
    thrown,            \* the call lastCall records raised a TypeError
    lastCall,          \* the last call other than getSectionList: its name,
                       \* argument and return value
    calls              \* the callback invocations of the last makeSectionList

vars == <<cm, heap, _sectionList, _currentSection, previewContent, held,
          heldSnap, heldFresh, twice, thrown, lastCall, calls>>

Call(op, line, ret) == [op |-> op, line |-> line, ret |-> ret]

\* The manager state the operators work on.
M == [heap |-> heap, list |-> _sectionList, cur |-> _currentSection,
      held |-> held, thrown |-> FALSE]

\* <<start, end>> of each section of a list, read from the heap h.
Ranges(h, l) == [k \in 1..Len(l.items) |-> <<h[l.items[k]].start, h[l.items[k]].end>>]

\* new SectionManager(cm, preview) over the document d and an empty preview
Constructed(d) ==
    /\ cm = d
    /\ heap = [a \in Addrs |-> FreeCell]
    /\ _sectionList = NullList
    /\ _currentSection = Null
    /\ previewContent = <<>>
    /\ held = NullList
    /\ heldSnap = <<>>
    /\ heldFresh = FALSE
    /\ twice = FALSE
    /\ thrown = FALSE
    /\ lastCall = Call("new", -1, Null)
    /\ calls = <<>>

Init == Constructed(<<>>)

\* makeSectionList, called when the editor holds a document of the set D.
Rebuild(D) ==
    \E d \in D : \E r \in {makeSectionList(d, M)} :
        /\ cm' = d
        /\ heap' = r.m.heap
        /\ _sectionList' = r.m.list
        /\ _currentSection' = r.m.cur
        /\ held' = r.m.held
        /\ thrown' = r.m.thrown
        /\ calls' = r.calls
        /\ twice' = (heldFresh /\ ~_sectionList.isNull /\ d = cm)
        /\ heldFresh' = FALSE
        /\ lastCall' = Call("makeSectionList", -1, Null)
        /\ UNCHANGED <<previewContent, heldSnap>>

MakeSectionList == Rebuild(Docs)

MakeHeadingSectionList == Rebuild(HeadingDocs)

MakeSectionListAgain == Rebuild({cm})

\* The preview is rendered anew.
Render ==
    /\ \E r \in Renders : previewContent' = r
    /\ UNCHANGED <<cm, heap, _sectionList, _currentSection, held, heldSnap,
                   heldFresh, twice, thrown, lastCall, calls>>

\* The caller keeps what getSectionList returns.
GetSectionList ==
    \E m \in {Collect([M EXCEPT !.held = _sectionList])} :
    /\ held' = m.held
    /\ heap' = m.heap
    /\ _sectionList' = m.list
    /\ _currentSection' = m.cur
    /\ heldSnap' = Ranges(heap, _sectionList)
    /\ heldFresh' = TRUE
    /\ twice' = FALSE
    /\ UNCHANGED <<cm, previewContent, thrown, lastCall, calls>>

SectionByLine ==
    \E line \in 0..(lineCount(cm) + 1) : \E r \in {sectionByLine(M, line)} :
        /\ thrown' = r.thrown
        /\ lastCall' = Call("sectionByLine", line, r.ret)
        /\ UNCHANGED <<cm, heap, _sectionList, _currentSection, previewContent,
                       held, heldSnap, heldFresh, twice, calls>>

SectionMatch ==
    /\ Nest(previewContent) < MaxNest
    /\ \E r \in {sectionMatch(M, previewContent)} :
        /\ heap' = r.m.heap
        /\ previewContent' = r.contents
    /\ thrown' = FALSE
    /\ lastCall' = Call("sectionMatch", -1, Null)
    /\ UNCHANGED <<cm, _sectionList, _currentSection, held, heldSnap, heldFresh,
                   twice, calls>>

\* The section-list specification: rebuilds over changing documents and a
\* caller that keeps the list getSectionList gave it.
Next == MakeSectionList \/ GetSectionList

Spec == Init /\ [][Next]_vars

\* The lookup specification: rebuilds and lookups.
NextLookup == MakeSectionList \/ SectionByLine

SpecLookup == Init /\ [][NextLookup]_vars

\* The preview specification: renders and matches over lists of 0..MaxLines
\* sections.
NextPreview == MakeHeadingSectionList \/ Render \/ SectionMatch

SpecPreview == Init /\ [][NextPreview]_vars

\* The classifier specification: a manager constructed over any document of
\* ClassifyDocs, then rebuilt.
InitClassify == \E d \in ClassifyDocs : Constructed(d)

NextClassify == MakeSectionListAgain

SpecClassify == InitClassify /\ [][NextClassify]_vars

\* ---------------------------------------------------------------- claims

\* The document has a line whose trimmed text is not empty.
HasContent(d) == \E i \in 0..(Len(d) - 1) : Trim(getLine(d, i)) # <<>>

FirstNonBlank(d) ==
    CHOOSE i \in 0..(Len(d) - 1) :
        /\ Trim(getLine(d, i)) # <<>>
        /\ \A j \in 0..(i - 1) : Trim(getLine(d, j)) = <<>>

\* makeSectionList was the last call, on the document cm.
Built == lastCall.op = "makeSectionList"

\* <<start, end>> of the manager's sections
Sections == Ranges(heap, _sectionList)

\* C1: after makeSectionList on a document with a non-blank line, the list
\* is not empty, section 0 starts at the first non-blank line, every section
\* has start <= end, consecutive sections are contiguous and the last
\* section ends at lineCount - 1.
C1_SectionsCoverDocument ==
    (Built /\ HasContent(cm)) =>
        /\ Len(Sections) >= 1
        /\ Sections[1][1] = FirstNonBlank(cm)
        /\ \A k \in 1..Len(Sections) : Sections[k][1] <= Sections[k][2]
        /\ \A k \in 1..(Len(Sections) - 1) : Sections[k + 1][1] = Sections[k][2] + 1
        /\ Sections[Len(Sections)][2] = lineCount(cm) - 1

\* C2: every section of a list obtained from getSectionList keeps the start
\* and end it had when the list was obtained, whatever makeSectionList calls
\* follow.
C2_HeldListNotMutated == Ranges(heap, held) = heldSnap

\* C3: makeSectionList never raises an error.
C3_MakeSectionListTotal == Built => ~thrown

\* C4: with a non-empty list, sectionByLine(line) returns the one section
\* with start <= line <= end when line lies between section 0's start and
\* the last section's end, and the last section, without raising, when line
\* is greater than the last section's end.
C4_SectionByLine ==
    (lastCall.op = "sectionByLine" /\ Len(_sectionList.items) >= 1) =>
        LET line == lastCall.line
            n == Len(Sections)
            holds(k) == Sections[k][1] <= line /\ line <= Sections[k][2]
        IN  /\ ~thrown
            /\ (Sections[1][1] <= line /\ line <= Sections[n][2]) =>
                   \E k \in 1..n :
                       /\ lastCall.ret = _sectionList.items[k]
                       /\ holds(k)
                       /\ \A j \in 1..n : holds(j) => j = k
            /\ line > Sections[n][2] => lastCall.ret = _sectionList.items[n]

\* A lookup of a line inside the built range that returned a section other
\* than the first.
C4_Witness ==
    /\ lastCall.op = "sectionByLine"
    /\ Len(_sectionList.items) >= 2
    /\ lastCall.line <= Sections[Len(Sections)][2]
    /\ lastCall.ret # Null
    /\ lastCall.ret # _sectionList.items[1]

\* C5 as stated: for ["", "# Title", "body1", "body2", "## Sub", "body3"]
\* makeSectionList produces exactly the three sections {1,1}, {2,3}, {4,5}.
C5_AsStated ==
    (Built /\ cm = ExampleDoc) =>
        Sections = << <<1, 1>>, <<2, 3>>, <<4, 5>> >>

\* C5: for ["", "# Title", "body1", "body2", "## Sub", "body3"]
\* makeSectionList raises no error and produces exactly the two sections
\* {1,3} and {4,5}.
C5_Example ==
    (Built /\ cm = ExampleDoc) =>
        /\ ~thrown
        /\ Sections = << <<1, 3>>, <<4, 5>> >>

\* The example was rebuilt by a manager whose caller holds an earlier list.
C5_Witness ==
    /\ Built
    /\ cm = ExampleDoc
    /\ Len(_sectionList.items) = 2
    /\ Len(held.items) >= 1
    /\ ~heldFresh

\* The lines of calls are first, first + 1, ... in order.
Consecutive(first) == \A k \in 1..Len(calls) : calls[k][2] = first + k - 1

\* The lines the classifier reports start at the first non-blank line and
\* run on to the last line, or to the line at which the callback raised.
ReportedLines ==
    IF ~HasContent(cm) THEN calls = <<>>
    ELSE /\ Consecutive(FirstNonBlank(cm))
         /\ Len(calls) >= 1
         /\ ~thrown => calls[Len(calls)][2] = lineCount(cm) - 1

\* Only '=' or only '-', at least one, with optional whitespace around.
LooseUnderline(s) ==
    /\ Trim(s) # <<>>
    /\ \/ \A k \in 1..Len(Trim(s)) : Trim(s)[k] = "="
       \/ \A k \in 1..Len(Trim(s)) : Trim(s)[k] = "-"

\* Only '=' or only '-', at least one, after optional spaces and before
\* optional whitespace.
StrictUnderline(s) ==
    /\ LooseUnderline(s)
    /\ \A k \in 1..Len(s) : (\A j \in 1..k : s[j] \in WhiteSpace) => s[k] = " "

HeadingState(d, i) ==
    /\ d[i + 1].base.header
    /\ ~d[i + 1].base.quote
    /\ ~d[i + 1].base.list
    /\ ~d[i + 1].base.taskList

\* C6 as stated: every line from the first non-blank line on is flagged
\* exactly when (i) its state is heading, not quote, not list, not task list,
\* or (ii) the next line exists and is only '=' or only '-' with optional
\* surrounding whitespace.
C6_AsStated ==
    Built =>
        /\ ReportedLines
        /\ \A k \in 1..Len(calls) :
               LET i == calls[k][2] IN
               calls[k][1] <=>
                   \/ HeadingState(cm, i)
                   \/ (i + 1 < Len(cm) /\ LooseUnderline(cm[i + 2].text))

\* C6: every line the classifier reports (the lines from the first non-blank
\* line on) is flagged exactly when (i) its text is not empty and its state
\* is heading, not quote, not list, not task list, or (ii) the next line
\* exists and is zero or more spaces, then one or more '=' or one or more
\* '-', then optional whitespace.
C6_Classifier ==
    Built =>
        /\ ReportedLines
        /\ \A k \in 1..Len(calls) :
               LET i == calls[k][2] IN
               calls[k][1] <=>
                   \/ (cm[i + 1].text # <<>> /\ HeadingState(cm, i))
                   \/ (i + 1 < Len(cm) /\ StrictUnderline(cm[i + 2].text))

\* A rebuild that reported an empty line in heading state as no boundary and
\* a line before an underline as a boundary.
C6_Witness ==
    /\ Built
    /\ ~thrown
    /\ \E k \in 1..Len(calls) :
           /\ ~calls[k][1]
           /\ cm[calls[k][2] + 1].text = <<>>
           /\ HeadingState(cm, calls[k][2])
    /\ \E k \in 1..Len(calls) :
           /\ calls[k][1]
           /\ ~HeadingState(cm, calls[k][2])

\* C7: two makeSectionList calls in a row on an unchanged document yield
\* equal lists: the list obtained after the first call and the list of the
\* second have the same number of sections and the same start and end at
\* each index.
C7_RebuildDeterministic == twice => Ranges(heap, held) = Sections

\* ------------------------------------------------------ the preview claims

IsElement(node) == node.nodeType = ELEMENT_NODE

\* The top-level elements of the preview, in order.
ElementsOf(contents) == SelectSeq(contents, IsElement)

RECURSIVE Flatten(_)
Flatten(seqs) == IF seqs = <<>> THEN <<>> ELSE Head(seqs) \o Flatten(Tail(seqs))

\* $previewSectionEl of section i (0-based) in the heap h
ElOf(h, i) == h[_sectionList.items[i + 1]].previewSectionEl

Min(a, b) == IF a <= b THEN a ELSE b

\* The groups of the preview before the call, as positions and as nodes.
Groups == _getPreviewSections(previewContent)
GroupNodes(k) == NodesAt(previewContent, Groups[k])

\* Sections at or past the number of groups keep their previewElement, and
\* the elements of the groups at or past the number of sections stay
\* top-level elements of the preview, after the containers.
Unpaired(containers) ==
    LET n == Len(_sectionList.items)
        g == Len(Groups)
    IN  /\ \A i \in g..(n - 1) : ElOf(heap', i) = ElOf(heap, i)
        /\ ElementsOf(previewContent') =
               containers \o NodesAt(previewContent,
                                     Flatten(SubSeq(Groups, Min(n, g) + 1, g)))

\* C8 as stated: after sectionMatch over n sections and g groups, for every
\* i < min(n, g) section i's previewElement is a container labelled i that
\* holds exactly the elements of group i; for i >= g it is what it was;
\* groups at or past n are paired with nothing.
C8_AsStated ==
    [][(SectionMatch /\ ~_sectionList.isNull) =>
        LET m == Min(Len(_sectionList.items), Len(Groups)) IN
        /\ \A i \in 0..(m - 1) :
               ElOf(heap', i) = Jq(<<SectionDiv(i, GroupNodes(i + 1))>>)
        /\ Unpaired([i \in 1..m |-> SectionDiv(i - 1, GroupNodes(i))])]_vars

\* C8: after sectionMatch over n sections and g groups, for every
\* i < min(n, g) whose group is not empty section i's previewElement is a
\* container labelled i that holds exactly the elements of group i and is a
\* top-level element of the preview; when group 0 is empty (the preview has
\* no elements) and n >= 1, section 0's previewElement is an empty element
\* set and no container is created; for i >= g it is what it was; groups at
\* or past n are paired with nothing.
C8_SectionMatch ==
    [][(SectionMatch /\ ~_sectionList.isNull) =>
        LET m == Min(Len(_sectionList.items), Len(Groups))
            e == IF Groups[1] = <<>> THEN 0 ELSE m
        IN
        /\ \A i \in 0..(m - 1) :
               ElOf(heap', i) = IF Groups[i + 1] = <<>> THEN Jq(<<>>)
                                ELSE Jq(<<SectionDiv(i, GroupNodes(i + 1))>>)
        /\ Unpaired([i \in 1..e |-> SectionDiv(i - 1, GroupNodes(i))])]_vars

\* A match that gave the first two sections their containers and left a
\* third section, past the number of groups, without one; the containers
\* are the first elements of the preview.
C8_Witness ==
    /\ lastCall.op = "sectionMatch"
    /\ Len(_sectionList.items) >= 3
    /\ Len(previewContent) >= 2
    /\ ElOf(heap, 0) = Jq(<<previewContent[1]>>)
    /\ ElOf(heap, 1) = Jq(<<previewContent[2]>>)
    /\ previewContent[1].cls = 0
    /\ previewContent[2].cls = 1
    /\ ElOf(heap, 2) = NullEl

\* C9: sectionMatch changes no line range: the list keeps its length and
\* every section its start and end; when no list has been built the call
\* changes nothing: the list stays unset and the preview ungrouped.
C9_SectionMatchFrame ==
    [][SectionMatch =>
        /\ _sectionList' = _sectionList
        /\ Ranges(heap', _sectionList') = Ranges(heap, _sectionList)
        /\ _sectionList.isNull =>
               /\ heap' = heap
               /\ previewContent' = previewContent
               /\ _currentSection' = _currentSection]_vars

\* A match over two or more sections that wrapped a group of two or more
\* elements for section 0 and left the line ranges contiguous from line 0.
C9_Witness ==
    /\ lastCall.op = "sectionMatch"
    /\ Len(_sectionList.items) >= 2
    /\ ~ElOf(heap, 0).isNull
    /\ ElOf(heap, 0).nodes # <<>>
    /\ Len(ElOf(heap, 0).nodes[1].kids) >= 2
    /\ Sections[1] = <<0, 0>>
    /\ Sections[2] = <<1, 1>>

\* An H1 to H6 element.
IsHeadingElement(node) ==
    /\ IsElement(node)
    /\ node.tagName \in {<<"H", "1">>, <<"H", "2">>, <<"H", "3">>,
                         <<"H", "4">>, <<"H", "5">>, <<"H", "6">>}

\* C10: the groups of the preview's top-level elements concatenate to the
\* elements in order; a heading element is only ever the first of its
\* group; every group after the first is non-empty and starts with a
\* heading; group 0 is empty only when the preview has no elements; and
\* [H1, P, P, H2, P] is grouped as [[H1, P, P], [H2, P]].
C10_Grouping ==
    LET g == Len(Groups) IN
    /\ NodesAt(previewContent, Flatten(Groups)) = ElementsOf(previewContent)
    /\ \A j \in 1..g : \A k \in 2..Len(Groups[j]) :
           ~IsHeadingElement(GroupNodes(j)[k])
    /\ \A j \in 2..g : Groups[j] # <<>> /\ IsHeadingElement(GroupNodes(j)[1])
    /\ Groups[1] = <<>> <=> ElementsOf(previewContent) = <<>>
    /\ previewContent = ExamplePreview =>
           [j \in 1..g |-> GroupNodes(j)] = << <<H1, P, P>>, <<H2, P>> >>
====
